---- MODULE Spec2Model ----
(***************************************************************************)
(* Model of compositeFingerprint.js: generate() (the probes, the storage   *)
(* salt, private-mode detection, the digest of the component record) and   *)
(* compare() (input normalisation and the weighted similarity score).      *)
(***************************************************************************)
EXTENDS Integers, Sequences, FiniteSets, TLC

VARIABLES
  left, right,      \* the two arguments of the compare() call
  normA, normB,     \* compare's locals a and b (normalise(left), normalise(right))
  result,           \* what the compare() call did: a returned score or a throw
  renormA, renormB, \* normalise applied to a and b again (a caller handing a, b back)
  reresult,         \* compare(a, b)
  cpc,              \* position of the compare() caller
  env,              \* the runtime generate() runs in: what exists, what throws
  slot,             \* localStorage's value under '__fp_salt_v1' (null when absent)
  saltWrites,       \* how many localStorage.setItem calls have stored a salt
  calls             \* the generate() calls: each one's position and locals

cvars == <<left, right, normA, normB, result, renormA, renormB, reresult, cpc>>
gvars == <<env, slot, saltWrites, calls>>
vars  == <<cvars, gvars>>

(***************************************************************************)
(* JavaScript values.  A string is held as its lexical content: a sequence *)
(* of tokens, so that JSON.parse and JSON.stringify work on text.          *)
(***************************************************************************)
Undef   == [t |-> "undefined"]
Null    == [t |-> "null"]
Bool(b) == [t |-> "boolean", b |-> b]
Num(n)  == [t |-> "number", n |-> n]
Str(s)  == [t |-> "string", s |-> s]
Arr(e)  == [t |-> "array", e |-> e]
\* an object: its own properties in insertion order, each [k |-> key text, v |-> value]
Obj(f)  == [t |-> "object", f |-> f]
\* the completion of an expression that raised a TypeError
Throw   == [t |-> "throw"]

\* tokens of a text
Punct(c)  == [k |-> "punct", c |-> c]
Lit(l)    == [k |-> "lit", l |-> l]
NumTok(n) == [k |-> "num", n |-> n]
\* a run of characters that is no JSON token (an identifier, a hex digest, garbage)
Word(w)   == [k |-> "word", w |-> w]
\* a double-quoted JSON string literal with content p
Quoted(p) == [k |-> "quoted", p |-> p]

LBrace == Punct("{")
RBrace == Punct("}")
LBrack == Punct("[")
RBrack == Punct("]")
Colon  == Punct(":")
Comma  == Punct(",")

\* the string whose text is the single word w
S(w) == Str(<<Word(w)>>)
\* the text of a property name
Key(name) == <<Word(name)>>
Prop(name, v) == [k |-> Key(name), v |-> v]

\* typeof v
TypeOf(v) ==
  CASE v.t = "null"  -> "object"
    [] v.t = "array" -> "object"
    [] OTHER         -> v.t

\* ToBoolean(v)
Truthy(v) ==
  CASE v.t = "undefined" -> FALSE
    [] v.t = "null"      -> FALSE
    [] v.t = "boolean"   -> v.b
    [] v.t = "number"    -> v.n # 0
    [] v.t = "string"    -> v.s # <<>>
    [] OTHER             -> TRUE

RECURSIVE LastWith(_, _, _)
LastWith(f, key, i) ==
  IF i = 0 THEN Undef
  ELSE IF f[i].k = key THEN f[i].v
  ELSE LastWith(f, key, i - 1)

\* v.name : a TypeError on undefined and null, undefined where v has no such property
Get(v, name) ==
  CASE v.t = "throw"                 -> Throw
    [] v.t \in {"undefined", "null"} -> Throw
    [] v.t = "object"                -> LastWith(v.f, Key(name), Len(v.f))
    [] OTHER                         -> Undef

\* v?.[0]
OptIndex0(v) ==
  CASE v.t = "throw"                 -> Throw
    [] v.t \in {"undefined", "null"} -> Undef
    [] v.t = "array"                 -> IF Len(v.e) = 0 THEN Undef ELSE v.e[1]
    [] v.t = "object"                -> LastWith(v.f, <<NumTok(0)>>, Len(v.f))
    \* the first character of a string: strings are not split into characters here,
    \* and no input holds a string where an array is indexed
    [] v.t = "string"                -> IF v.s = <<>> THEN Undef ELSE Str(<<[k |-> "char0", p |-> v.s]>>)
    [] OTHER                         -> Undef

\* x || y
OrElse(x, y) == IF x.t = "throw" THEN Throw ELSE IF Truthy(x) THEN x ELSE y

\* x === y (objects and arrays are equal only by identity, which values do not carry:
\* the compared fields of every input are scalars)
StrictEq(x, y) ==
  IF x.t \in {"object", "array"} \/ y.t \in {"object", "array"} THEN FALSE ELSE x = y

(***************************************************************************)
(* JSON.stringify and JSON.parse on token sequences.                       *)
(***************************************************************************)
RECURSIVE JSONStringify(_)
RECURSIVE SerElems(_, _)
RECURSIVE SerMembers(_, _, _)

SerElems(e, i) ==
  IF i > Len(e) THEN <<>>
  ELSE (IF i > 1 THEN <<Comma>> ELSE <<>>) \o JSONStringify(e[i]) \o SerElems(e, i + 1)

\* properties whose value is undefined are left out
SerMembers(f, i, first) ==
  IF i > Len(f) THEN <<>>
  ELSE IF f[i].v.t = "undefined" THEN SerMembers(f, i + 1, first)
  ELSE (IF first THEN <<>> ELSE <<Comma>>)
       \o <<Quoted(f[i].k), Colon>> \o JSONStringify(f[i].v)
       \o SerMembers(f, i + 1, FALSE)

JSONStringify(v) ==
  CASE v.t = "null"      -> <<Lit("null")>>
    [] v.t = "undefined" -> <<Lit("null")>>   \* an array hole; members are dropped above
    [] v.t = "boolean"   -> <<Lit(IF v.b THEN "true" ELSE "false")>>
    [] v.t = "number"    -> <<NumTok(v.n)>>
    [] v.t = "string"    -> <<Quoted(v.s)>>
    [] v.t = "array"     -> <<LBrack>> \o SerElems(v.e, 1) \o <<RBrack>>
    [] v.t = "object"    -> <<LBrace>> \o SerMembers(v.f, 1, TRUE) \o <<RBrace>>

ParseFail == [ok |-> FALSE, v |-> Undef, next |-> 0]
ParseOk(v, next) == [ok |-> TRUE, v |-> v, next |-> next]

RECURSIVE ParseValue(_, _)
RECURSIVE ParseMembers(_, _, _, _)
RECURSIVE ParseElements(_, _, _, _)

ParseMembers(ts, i, acc, first) ==
  IF i > Len(ts) THEN ParseFail
  ELSE IF first /\ ts[i] = RBrace THEN ParseOk(Obj(acc), i + 1)
  ELSE IF ts[i].k # "quoted" \/ i + 1 > Len(ts) THEN ParseFail
  ELSE IF ts[i + 1] # Colon THEN ParseFail
  ELSE LET r == ParseValue(ts, i + 2) IN
       IF ~r.ok \/ r.next > Len(ts) THEN ParseFail
       ELSE LET acc2 == Append(acc, [k |-> ts[i].p, v |-> r.v]) IN
            IF ts[r.next] = Comma THEN ParseMembers(ts, r.next + 1, acc2, FALSE)
            ELSE IF ts[r.next] = RBrace THEN ParseOk(Obj(acc2), r.next + 1)
            ELSE ParseFail

ParseElements(ts, i, acc, first) ==
  IF i > Len(ts) THEN ParseFail
  ELSE IF first /\ ts[i] = RBrack THEN ParseOk(Arr(acc), i + 1)
  ELSE LET r == ParseValue(ts, i) IN
       IF ~r.ok \/ r.next > Len(ts) THEN ParseFail
       ELSE LET acc2 == Append(acc, r.v) IN
            IF ts[r.next] = Comma THEN ParseElements(ts, r.next + 1, acc2, FALSE)
            ELSE IF ts[r.next] = RBrack THEN ParseOk(Arr(acc2), r.next + 1)
            ELSE ParseFail

ParseValue(ts, i) ==
  IF i > Len(ts) THEN ParseFail
  ELSE LET tk == ts[i] IN
       CASE tk.k = "lit"    -> ParseOk(CASE tk.l = "true"  -> Bool(TRUE)
                                         [] tk.l = "false" -> Bool(FALSE)
                                         [] OTHER          -> Null, i + 1)
         [] tk.k = "num"    -> ParseOk(Num(tk.n), i + 1)
         [] tk.k = "quoted" -> ParseOk(Str(tk.p), i + 1)
         [] tk = LBrace     -> ParseMembers(ts, i + 1, <<>>, TRUE)
         [] tk = LBrack     -> ParseElements(ts, i + 1, <<>>, TRUE)
         [] OTHER           -> ParseFail

\* JSON.parse(text): [ok |-> FALSE] is a SyntaxError
JSONParse(text) ==
  LET r == ParseValue(text, 1) IN
  IF r.ok /\ r.next = Len(text) + 1 THEN [ok |-> TRUE, v |-> r.v]
  ELSE [ok |-> FALSE, v |-> Undef]

(***************************************************************************)
(* compare(left, right)                                                    *)
(***************************************************************************)
EmptyObj == Obj(<<>>)
IdOnly(val) == Obj(<<Prop("__idOnly", val)>>)

\* normalise without the branch that keeps a bare component record
RECURSIVE normaliseComponentsOnly(_)
normaliseComponentsOnly(val) ==
  IF Truthy(val) /\ TypeOf(val) = "object" /\ Truthy(Get(val, "components"))
  THEN Get(val, "components")
  ELSE IF TypeOf(val) = "string"
       THEN LET parsed == JSONParse(val.s) IN
            IF parsed.ok THEN normaliseComponentsOnly(parsed.v) ELSE IdOnly(val)
  ELSE EmptyObj

\* normalise with every string taken as an identifier, none parsed
normaliseStringsAsIds(val) ==
  IF Truthy(val) /\ TypeOf(val) = "object" /\ Truthy(Get(val, "components"))
  THEN Get(val, "components")
  ELSE IF Truthy(val) /\ TypeOf(val) = "object" /\ Truthy(Get(val, "audioHash"))
  THEN val
  ELSE IF TypeOf(val) = "string" THEN IdOnly(val)
  ELSE EmptyObj

\* normalise with the catch of the parse falling through to the empty record
RECURSIVE normaliseEmptyOnBadText(_)
normaliseEmptyOnBadText(val) ==
  IF Truthy(val) /\ TypeOf(val) = "object" /\ Truthy(Get(val, "components"))
  THEN Get(val, "components")
  ELSE IF Truthy(val) /\ TypeOf(val) = "object" /\ Truthy(Get(val, "audioHash"))
  THEN val
  ELSE IF TypeOf(val) = "string"
       THEN LET parsed == JSONParse(val.s) IN
            IF parsed.ok THEN normaliseEmptyOnBadText(parsed.v) ELSE EmptyObj
  ELSE EmptyObj

RECURSIVE normalise(_)
normalise(val) ==
  LET viaComponents == Truthy(val) /\ TypeOf(val) = "object"
                       /\ Truthy(Get(val, "components"))
      viaAudioHash  == Truthy(val) /\ TypeOf(val) = "object"
                       /\ Truthy(Get(val, "audioHash"))
  IN
  IF viaComponents THEN Get(val, "components")
  ELSE IF viaAudioHash THEN val
  ELSE IF TypeOf(val) = "string"
       THEN LET parsed == JSONParse(val.s) IN
            IF parsed.ok THEN normalise(parsed.v) ELSE IdOnly(val)
  ELSE EmptyObj

\* the table with canvasHash weighted like the other hashes
weightsCanvasTwo ==
  [ audioHash |-> 2, drmHash |-> 2, canvasHash |-> 2, userAgent |-> 2,
    screenRes |-> 1, deviceMemory |-> 1, hardwareConcurrency |-> 1,
    timezone |-> 1, language |-> 1, languages0 |-> 1 ]

weights ==
  [ audioHash |-> 2, drmHash |-> 2, canvasHash |-> 1, userAgent |-> 2,
    screenRes |-> 1, deviceMemory |-> 1, hardwareConcurrency |-> 1,
    timezone |-> 1, language |-> 1, languages0 |-> 1 ]

\* weights[key] || 1
weightOf(key) ==
  IF key \in DOMAIN weights /\ weights[key] # 0 THEN weights[key] ELSE 1

\* one call of add: acc holds the closure's score and total
add(acc, valA, valB, key) ==
  [ score |-> acc.score + (IF StrictEq(valA, valB) THEN weightOf(key) ELSE 0),
    total |-> acc.total + weightOf(key) ]

\* a.deviceInfo without the default
deviceInfoOfNoDefault(r) == Get(r, "deviceInfo")

\* a.deviceInfo || {}
deviceInfoOf(r) == OrElse(Get(r, "deviceInfo"), EmptyObj)
\* a.localeInfo || {}
localeInfoOf(r) == OrElse(Get(r, "localeInfo"), EmptyObj)

\* the arguments of the ten add calls, in the order of the calls
addCalls(a, b) ==
  LET dA == deviceInfoOf(a)
      dB == deviceInfoOf(b)
      lA == localeInfoOf(a)
      lB == localeInfoOf(b)
  IN << <<Get(a, "audioHash"),  Get(b, "audioHash"),  "audioHash">>,
        <<Get(a, "drmHash"),    Get(b, "drmHash"),    "drmHash">>,
        <<Get(a, "canvasHash"), Get(b, "canvasHash"), "canvasHash">>,
        <<Get(dA, "userAgent"),           Get(dB, "userAgent"),           "userAgent">>,
        <<Get(dA, "screenRes"),           Get(dB, "screenRes"),           "screenRes">>,
        <<Get(dA, "deviceMemory"),        Get(dB, "deviceMemory"),        "deviceMemory">>,
        <<Get(dA, "hardwareConcurrency"), Get(dB, "hardwareConcurrency"), "hardwareConcurrency">>,
        <<Get(lA, "timezone"), Get(lB, "timezone"), "timezone">>,
        <<Get(lA, "language"), Get(lB, "language"), "language">>,
        <<OptIndex0(Get(lA, "languages")), OptIndex0(Get(lB, "languages")), "languages0">> >>

RECURSIVE runAdds(_, _, _)
runAdds(args, i, acc) ==
  IF i > Len(args) THEN acc
  ELSE runAdds(args, i + 1, add(acc, args[i][1], args[i][2], args[i][3]))

\* a completed call: the number num/den returned, or an exception
Return(num, den) == [kind |-> "return", num |-> num, den |-> den]
Raise == [kind |-> "throw"]

\* compare from line 232 on, given a and b
scoreNormalised(a, b) ==
  IF ~Truthy(a) \/ ~Truthy(b) \/ TypeOf(a) # "object" \/ TypeOf(b) # "object"
  THEN Return(0, 1)
  ELSE IF Truthy(Get(a, "__idOnly")) \/ Truthy(Get(b, "__idOnly"))
  THEN IF Truthy(Get(a, "__idOnly")) /\ Truthy(Get(b, "__idOnly"))
          /\ StrictEq(Get(a, "__idOnly"), Get(b, "__idOnly"))
       THEN Return(1, 1) ELSE Return(0, 1)
  ELSE LET args == addCalls(a, b)
           acc  == runAdds(args, 1, [score |-> 0, total |-> 0])
       IN IF \E i \in 1..Len(args) : args[i][1] = Throw \/ args[i][2] = Throw
          THEN Raise
          ELSE IF acc.total # 0 THEN Return(acc.score, acc.total) ELSE Return(0, 1)

compare(l, r) == scoreNormalised(normalise(l), normalise(r))

(***************************************************************************)
(* The digest and the records generate() builds.                           *)
(***************************************************************************)
\* the SHA-256 hex digest of a text: one token, which no JSON parser accepts
digest(text) == Str(<<[k |-> "hex", p |-> text]>>)

MkDeviceInfo(userAgent, screenRes, deviceMemory, hardwareConcurrency) ==
  Obj(<< Prop("userAgent", userAgent), Prop("screenRes", screenRes),
         Prop("deviceMemory", deviceMemory),
         Prop("hardwareConcurrency", hardwareConcurrency) >>)

MkLocaleInfo(timezone, language, languages) ==
  Obj(<< Prop("timezone", timezone), Prop("language", language),
         Prop("languages", languages) >>)

MkComponents(audioHash, drmHash, canvasHash, storageSalt, privateFlag, deviceInfo, localeInfo) ==
  Obj(<< Prop("audioHash", audioHash), Prop("drmHash", drmHash),
         Prop("canvasHash", canvasHash), Prop("storageSalt", storageSalt),
         Prop("privateFlag", privateFlag), Prop("deviceInfo", deviceInfo),
         Prop("localeInfo", localeInfo) >>)

\* { id, components } with id the digest of the serialised components
MkFingerprint(components) ==
  Obj(<< Prop("id", digest(JSONStringify(components))),
         Prop("components", components) >>)

(***************************************************************************)
(* generate(): the runtime, the probes, the salt, private-mode detection.  *)
(***************************************************************************)
\* how many generate() calls run, one after another or interleaved
NumCalls == 2
Calls == 1..NumCalls

\* the quota below which a browser counts as private
QuotaThreshold == 150000000

KeySystems == <<"com.apple.fps.1_0", "com.widevine.alpha">>

Unavailable == S("unavailable")
Unsupported == S("unsupported")

\* a variable not yet assigned, a promise not yet settled
Unset == [t |-> "unset"]

\* the quota navigator.storage.estimate() may report (undefined: no quota field)
Quotas ==
  { Undef, Num(0), Num(QuotaThreshold - 1), Num(QuotaThreshold), Num(QuotaThreshold + 1) }

\* indexedDB and navigator.storage as the runtime offers them.  idb: "falsy" (the
\* global is null or undefined), "openThrows", "openError" (onerror fires), "openOk"
\* (onsuccess fires); estimate: "absent" (no navigator.storage), "rejects",
\* "resolves".  The globals crypto and indexedDB themselves exist in every browser
\* modelled: the code reads both unguarded.
IdbSettings ==
  { [idb |-> i, estimate |-> "absent", quota |-> Undef]
      : i \in {"falsy", "openThrows", "openError"} }
  \cup { [idb |-> "openOk", estimate |-> e, quota |-> Undef] : e \in {"absent", "rejects"} }
  \cup { [idb |-> "openOk", estimate |-> "resolves", quota |-> q] : q \in Quotas }

\* crypto: "full", "noSubtle" (crypto.subtle is undefined)
\* storage: "ok", "readOnly" (setItem throws), "throws" (localStorage or getItem throws)
\* mediaKeys: whether navigator has requestMediaKeySystemAccess; granted: the key
\* systems it grants
BrowserEnvs ==
  { [ isBrowser |-> TRUE, crypto |-> c, audio |-> a, canvas |-> cv, mediaKeys |-> mk,
      granted |-> g, storage |-> st, idb |-> d.idb, estimate |-> d.estimate,
      quota |-> d.quota ]
      : c \in {"full", "noSubtle"}, a \in {"ok", "throws"},
        cv \in {"ok", "throws"}, mk \in BOOLEAN,
        g \in {{}, {"com.widevine.alpha"}},
        st \in {"ok", "readOnly", "throws"}, d \in IdbSettings }

NodeEnv ==
  [ isBrowser |-> FALSE, crypto |-> "full", audio |-> "throws", canvas |-> "throws",
    mediaKeys |-> FALSE, granted |-> {}, storage |-> "throws", idb |-> "falsy",
    estimate |-> "absent", quota |-> Undef ]

\* a browser whose navigator lacks the API grants nothing
Envs == {e \in BrowserEnvs : e.mediaKeys \/ e.granted = {}} \cup {NodeEnv}

\* the completion of a call that may throw
Ok(v)  == [ok |-> TRUE, v |-> v]
Failed == [ok |-> FALSE, v |-> Undef]

\* hashString(str) in runtime e: crypto.subtle's digest in a browser that has it,
\* else nodeCrypto, which is null in a browser
hashString(e, text) ==
  IF e.isBrowser /\ e.crypto = "full" THEN Ok(digest(text))
  ELSE IF e.isBrowser THEN Failed
  ELSE Ok(digest(text))

\* the value a probe's try block ends with: its catch turns a throw into the sentinel
orUnavailable(r) == IF r.ok THEN r.v ELSE Unavailable

getAudioHash(e) ==
  IF ~e.isBrowser THEN Unavailable
  ELSE IF e.audio = "throws" THEN Unavailable
  ELSE orUnavailable(hashString(e, <<Word("samples")>>))

\* res.join('|') over the key systems
RECURSIVE drmResults(_, _)
drmResults(e, i) ==
  IF i > Len(KeySystems) THEN <<>>
  ELSE (IF i > 1 THEN <<Punct("|")>> ELSE <<>>)
       \o << Word(KeySystems[i]), Punct(":"),
             Word(IF KeySystems[i] \in e.granted THEN "granted" ELSE "denied") >>
       \o (IF KeySystems[i] \in e.granted
           THEN <<Punct(":"), Word(KeySystems[i])>> ELSE <<>>)
       \o drmResults(e, i + 1)

getDRMHash(e) ==
  IF ~e.isBrowser THEN Unavailable
  ELSE IF ~e.mediaKeys THEN Unsupported
  ELSE orUnavailable(hashString(e, drmResults(e, 1)))

getCanvasHash(e) ==
  IF ~e.isBrowser THEN Unavailable
  ELSE IF e.canvas = "throws" THEN Unavailable
  ELSE orUnavailable(hashString(e, <<Word("dataURL")>>))

getDeviceInfo(e) ==
  IF e.isBrowser
  THEN MkDeviceInfo(S("ua1"), S("1920x1080"), Num(8), Num(4))
  ELSE MkDeviceInfo(S("Node/v18"), S("N/A"), S("16 GB"), Num(4))

getLocaleInfo(e) ==
  IF e.isBrowser
  THEN MkLocaleInfo(S("tz1"), S("en"), Arr(<<S("en"), S("de")>>))
  ELSE MkLocaleInfo(S("tz1"), S("unknown"), Arr(<<>>))

\* crypto.getRandomValues(new Uint32Array(4)).join('-'): what it may draw
RandomSalts == {"r1", "r2"}

\* getStorageSalt without the test of the stored value: a fresh salt on every call
getStorageSaltAlwaysFresh(e, stored, rnd) ==
  IF ~e.isBrowser THEN [salt |-> Unavailable, slot |-> stored, wrote |-> FALSE]
  ELSE IF e.storage = "throws" THEN [salt |-> Unavailable, slot |-> stored, wrote |-> FALSE]
  ELSE IF e.storage = "readOnly"
       THEN [salt |-> Unavailable, slot |-> stored, wrote |-> FALSE]
  ELSE [salt |-> S(rnd), slot |-> S(rnd), wrote |-> TRUE]

\* getStorageSalt() with the slot holding stored and the random draw rnd:
\* the salt returned, the slot afterwards, whether setItem stored a value
getStorageSalt(e, stored, rnd) ==
  IF ~e.isBrowser THEN [salt |-> Unavailable, slot |-> stored, wrote |-> FALSE]
  ELSE IF e.storage = "throws" THEN [salt |-> Unavailable, slot |-> stored, wrote |-> FALSE]
  ELSE IF Truthy(stored) THEN [salt |-> stored, slot |-> stored, wrote |-> FALSE]
  ELSE IF e.storage = "readOnly"
       THEN [salt |-> Unavailable, slot |-> stored, wrote |-> FALSE]
  ELSE [salt |-> S(rnd), slot |-> S(rnd), wrote |-> TRUE]

\* a detection promise: pending on an event, resolved with v, or never settled
\* because the handler that would settle it threw
Pending(on) == [det |-> on, v |-> Unset]
Resolved(v) == [det |-> "resolved", v |-> v]
Hung        == [det |-> "hung", v |-> Unset]

\* detectPrivateMode(): the promise as its executor leaves it
detectPrivateMode(e) ==
  IF ~e.isBrowser THEN Resolved(Bool(FALSE))
  ELSE IF e.idb = "falsy" THEN Resolved(Bool(FALSE))
  ELSE IF e.idb = "openThrows" THEN Resolved(Bool(TRUE))
  ELSE Pending("opening")

\* db.onerror
dbOnError == Resolved(Bool(TRUE))

\* db.onsuccess: navigator.storage.estimate() is called outside any try
dbOnSuccess(e) == IF e.estimate = "absent" THEN Hung ELSE Pending("estimating")

\* quota && quota < 150_000_000
quotaIsLow(quota) ==
  IF Truthy(quota) THEN Bool(quota.n < QuotaThreshold) ELSE quota

\* the .then and the .catch of the estimate
estimateSettled(e) ==
  IF e.estimate = "resolves" THEN Resolved(quotaIsLow(e.quota)) ELSE Resolved(Bool(FALSE))

\* a call before generate() is entered
IdleCall ==
  [ pc |-> "idle", audioHash |-> Unset, drmHash |-> Unset, canvasHash |-> Unset,
    storageSalt |-> Unset, private |-> Pending("none"), out |-> Unset ]

\* whether a probe run in e settles only after an await
awaits(e, probe) ==
  /\ e.isBrowser /\ e.crypto = "full"
  /\ CASE probe = "audio"  -> e.audio = "ok"
       [] probe = "canvas" -> e.canvas = "ok"
       [] probe = "drm"    -> e.mediaKeys

Init ==
  /\ env \in Envs
  /\ slot \in IF env.isBrowser /\ env.storage # "throws"
              THEN {Null, S("s0"), Str(<<>>)} ELSE {Null}
  /\ saltWrites = 0
  /\ calls = [c \in Calls |-> IdleCall]
  /\ left = Unset /\ right = Unset /\ normA = Unset /\ normB = Unset
  /\ result = Unset /\ renormA = Unset /\ renormB = Unset /\ reresult = Unset
  /\ cpc = "off"

\* generate() is entered: the three probes run to their first await; one that
\* returns or throws before it is settled with its value
Start(c) ==
  /\ calls[c].pc = "idle"
  /\ calls' = [calls EXCEPT ![c] =
       [@ EXCEPT !.pc = "probing",
                 !.audioHash  = IF awaits(env, "audio")  THEN Unset ELSE getAudioHash(env),
                 !.drmHash    = IF awaits(env, "drm")    THEN Unset ELSE getDRMHash(env),
                 !.canvasHash = IF awaits(env, "canvas") THEN Unset ELSE getCanvasHash(env)]]
  /\ UNCHANGED <<env, slot, saltWrites, cvars>>

\* the audio probe's digest arrives
SettleAudio(c) ==
  /\ calls[c].pc = "probing" /\ calls[c].audioHash = Unset
  /\ calls' = [calls EXCEPT ![c].audioHash = getAudioHash(env)]
  /\ UNCHANGED <<env, slot, saltWrites, cvars>>

\* the DRM probe's requests and its digest arrive
SettleDRM(c) ==
  /\ calls[c].pc = "probing" /\ calls[c].drmHash = Unset
  /\ calls' = [calls EXCEPT ![c].drmHash = getDRMHash(env)]
  /\ UNCHANGED <<env, slot, saltWrites, cvars>>

\* the canvas probe's digest arrives
SettleCanvas(c) ==
  /\ calls[c].pc = "probing" /\ calls[c].canvasHash = Unset
  /\ calls' = [calls EXCEPT ![c].canvasHash = getCanvasHash(env)]
  /\ UNCHANGED <<env, slot, saltWrites, cvars>>

\* Promise.all has settled: getStorageSalt() and detectPrivateMode()'s executor run
\* in one turn of the event loop
CollectSalt(c) ==
  /\ calls[c].pc = "probing"
  /\ calls[c].audioHash # Unset /\ calls[c].drmHash # Unset /\ calls[c].canvasHash # Unset
  /\ \E rnd \in RandomSalts :
       LET g == getStorageSalt(env, slot, rnd) IN
       /\ slot' = g.slot
       /\ saltWrites' = saltWrites + (IF g.wrote THEN 1 ELSE 0)
       /\ calls' = [calls EXCEPT ![c] =
            [@ EXCEPT !.pc = "detecting", !.storageSalt = g.salt,
                      !.private = detectPrivateMode(env)]]
  /\ UNCHANGED <<env, cvars>>

\* indexedDB.open fails: db.onerror
OpenError(c) ==
  /\ calls[c].pc = "detecting" /\ calls[c].private.det = "opening"
  /\ env.idb = "openError"
  /\ calls' = [calls EXCEPT ![c].private = dbOnError]
  /\ UNCHANGED <<env, slot, saltWrites, cvars>>

\* indexedDB.open succeeds: db.onsuccess
OpenSuccess(c) ==
  /\ calls[c].pc = "detecting" /\ calls[c].private.det = "opening"
  /\ env.idb = "openOk"
  /\ calls' = [calls EXCEPT ![c].private = dbOnSuccess(env)]
  /\ UNCHANGED <<env, slot, saltWrites, cvars>>

\* the estimate settles
EstimateSettles(c) ==
  /\ calls[c].pc = "detecting" /\ calls[c].private.det = "estimating"
  /\ calls' = [calls EXCEPT ![c].private = estimateSettled(env)]
  /\ UNCHANGED <<env, slot, saltWrites, cvars>>

\* the record generate() assembles
componentsOf(e, call) ==
  MkComponents(call.audioHash, call.drmHash, call.canvasHash, call.storageSalt,
               call.private.v, getDeviceInfo(e), getLocaleInfo(e))

\* generate() resumes after await detectPrivateMode(): builds the record, digests it
\* and returns, or rejects where hashString throws
Finish(c) ==
  /\ calls[c].pc = "detecting" /\ calls[c].private.det = "resolved"
  /\ LET id == hashString(env, JSONStringify(componentsOf(env, calls[c]))) IN
     calls' = [calls EXCEPT ![c] =
       IF ~id.ok
       THEN [@ EXCEPT !.pc = "rejected"]
       ELSE [@ EXCEPT !.pc = "done",
                      !.out = Obj(<< Prop("id", id.v),
                                     Prop("components", componentsOf(env, calls[c])) >>)]]
  /\ UNCHANGED <<env, slot, saltWrites, cvars>>

Next ==
  \E c \in Calls :
    \/ Start(c) \/ SettleAudio(c) \/ SettleDRM(c) \/ SettleCanvas(c)
    \/ CollectSalt(c) \/ OpenError(c) \/ OpenSuccess(c) \/ EstimateSettles(c)
    \/ Finish(c)

Spec == Init /\ [][Next]_vars

(***************************************************************************)
(* The inputs handed to compare(): fingerprints as generate() builds them, *)
(* their bare component records, the JSON text of both, identifier strings *)
(* and values of every other shape.                                        *)
(***************************************************************************)
ScalarFields ==
  { "audioHash", "drmHash", "canvasHash", "storageSalt", "privateFlag",
    "userAgent", "screenRes", "deviceMemory", "hardwareConcurrency",
    "timezone", "language", "languages0" }

WeightedFields == ScalarFields \ {"storageSalt", "privateFlag"}

\* a browser's values
BaseVal ==
  [ audioHash |-> S("a1"), drmHash |-> S("d1"), canvasHash |-> S("c1"),
    storageSalt |-> S("s1"), privateFlag |-> Bool(FALSE),
    userAgent |-> S("ua1"), screenRes |-> S("1920x1080"),
    deviceMemory |-> Num(8), hardwareConcurrency |-> Num(4),
    timezone |-> S("tz1"), language |-> S("en"), languages0 |-> S("en") ]

\* another browser's values
AltVal ==
  [ audioHash |-> S("a2"), drmHash |-> S("d2"), canvasHash |-> S("c2"),
    storageSalt |-> S("s2"), privateFlag |-> Bool(TRUE),
    userAgent |-> S("ua2"), screenRes |-> S("390x844"),
    deviceMemory |-> S("unknown"), hardwareConcurrency |-> Num(8),
    timezone |-> S("tz2"), language |-> S("fr"), languages0 |-> S("fr") ]

FieldVal(f, D) == IF f \in D THEN AltVal[f] ELSE BaseVal[f]

\* the component record that differs from the base record in the fields D
RecordWith(D) ==
  MkComponents(FieldVal("audioHash", D), FieldVal("drmHash", D),
               FieldVal("canvasHash", D), FieldVal("storageSalt", D),
               FieldVal("privateFlag", D),
               MkDeviceInfo(FieldVal("userAgent", D), FieldVal("screenRes", D),
                            FieldVal("deviceMemory", D),
                            FieldVal("hardwareConcurrency", D)),
               MkLocaleInfo(FieldVal("timezone", D), FieldVal("language", D),
                            Arr(<<FieldVal("languages0", D), S("de")>>)))

DiffSets ==
  {{}} \cup {{f} : f \in ScalarFields}
       \cup { {"storageSalt", "privateFlag"}, {"canvasHash", "timezone"},
              {"audioHash", "userAgent", "languages0"}, WeightedFields }

\* what generate() returns in Node: every probe a sentinel, no languages
NodeRecord ==
  MkComponents(S("unavailable"), S("unavailable"), S("unavailable"),
               S("unavailable"), Bool(FALSE),
               MkDeviceInfo(S("Node/v18"), S("N/A"), S("16 GB"), Num(4)),
               MkLocaleInfo(S("tz1"), S("unknown"), Arr(<<>>)))

\* r without its property name
Without(r, name) == Obj(SelectSeq(r.f, LAMBDA e : e.k # Key(name)))

FullRecords == {RecordWith(D) : D \in DiffSets} \cup {NodeRecord}

\* records with a sub-record missing
SparseRecords ==
  { Without(RecordWith({}), "deviceInfo"), Without(RecordWith({}), "localeInfo"),
    Without(Without(RecordWith({"canvasHash"}), "deviceInfo"), "localeInfo") }

ComponentRecords == FullRecords \cup SparseRecords

TextOf(v) == Str(JSONStringify(v))

Fingerprints == {MkFingerprint(r) : r \in ComponentRecords}

\* records whose JSON text is also handed in
JsonTexts == {TextOf(x) : x \in ComponentRecords \cup Fingerprints}

\* strings that are no JSON text of a fingerprint or of a record
BareIdStrings ==
  { Str(<<>>), S("id1"), S("id2"),
    MkFingerprint(RecordWith({}))[ "f" ][1].v,
    Str(<<NumTok(123)>>), Str(<<NumTok(456)>>), Str(<<Lit("true")>>),
    Str(<<Lit("null")>>), Str(<<Quoted(<<Word("id1")>>)>>) }

\* text cut off in the middle of an object, and text with a stray word
MalformedTexts ==
  { Str(SubSeq(JSONStringify(RecordWith({})), 1, 3)),
    Str(JSONStringify(RecordWith({})) \o <<Word("x")>>),
    Str(<<LBrace, Word("audioHash"), Colon, Quoted(<<Word("a1")>>), RBrace>>) }

\* everything else: not a fingerprint, not a record, not a string
OtherShapes ==
  { Null, Undef, Num(0), Num(5), Bool(TRUE), Arr(<<>>), Arr(<<RecordWith({})>>),
    EmptyObj,
    Obj(<<Prop("id", S("id1"))>>),
    Obj(<<Prop("id", S("id1")), Prop("components", Null)>>),
    Obj(<<Prop("components", S("id1"))>>),
    Obj(<<Prop("components", Num(5))>>),
    Obj(<<Prop("components", Bool(TRUE))>>),
    Obj(<<Prop("components", Arr(<<S("a1")>>))>>),
    Obj(<<Prop("components", EmptyObj)>>),
    Obj(<<Prop("components", Obj(<<Prop("drmHash", S("d1"))>>))>>),
    Obj(<<Prop("audioHash", S("a1")), Prop("deviceInfo", S("ua1")),
          Prop("localeInfo", Num(5))>>),
    Obj(<<Prop("audioHash", S("a1")), Prop("deviceInfo", Null),
          Prop("localeInfo", MkLocaleInfo(S("tz1"), S("en"), Null))>>),
    Obj(<<Prop("audioHash", S("a1")),
          Prop("localeInfo", MkLocaleInfo(S("tz1"), S("en"), Num(5)))>>),
    Obj(<<Prop("audioHash", Str(<<>>)), Prop("drmHash", S("d1"))>>),
    TextOf(Arr(<<>>)), TextOf(EmptyObj), TextOf(S("id2")),
    TextOf(TextOf(RecordWith({}))) }

Inputs ==
  ComponentRecords \cup Fingerprints \cup JsonTexts \cup BareIdStrings
  \cup MalformedTexts \cup OtherShapes

CompareInit ==
  /\ left \in Inputs
  /\ right \in Inputs
  /\ normA = Unset /\ normB = Unset /\ result = Unset
  /\ renormA = Unset /\ renormB = Unset /\ reresult = Unset
  /\ cpc = "ready"
  /\ env = NodeEnv /\ slot = Null /\ saltWrites = 0
  /\ calls = [c \in Calls |-> IdleCall]

\* the call compare(left, right)
Compare ==
  /\ cpc = "ready"
  /\ normA' = normalise(left)
  /\ normB' = normalise(right)
  /\ result' = compare(left, right)
  /\ cpc' = "done"
  /\ UNCHANGED <<left, right, renormA, renormB, reresult, gvars>>

\* the caller hands compare's normalised values back: compare(a, b)
CompareAgain ==
  /\ cpc = "done"
  /\ renormA' = normalise(normA)
  /\ renormB' = normalise(normB)
  /\ reresult' = compare(normA, normB)
  /\ cpc' = "redone"
  /\ UNCHANGED <<left, right, normA, normB, result, gvars>>

CompareNext == Compare \/ CompareAgain

SpecCompare == CompareInit /\ [][CompareNext]_vars

(***************************************************************************)
(* Properties of compare(), checked under SpecCompare.                     *)
(***************************************************************************)
HasProp(v, name) == v.t = "object" /\ \E i \in 1..Len(v.f) : v.f[i].k = Key(name)

\* the identifier-only shape { __idOnly: ... }
IsIdOnly(v) == HasProp(v, "__idOnly")

Compared == cpc \in {"done", "redone"}

\* the call returned the number n/d
ScoreIs(r, n, d) == r.kind = "return" /\ r.num * d = n * r.den

\* the scoring table as the specification gives it: field, weight
SpecTable ==
  << <<"audioHash", 2>>, <<"drmHash", 2>>, <<"canvasHash", 1>>, <<"userAgent", 2>>,
     <<"screenRes", 1>>, <<"deviceMemory", 1>>, <<"hardwareConcurrency", 1>>,
     <<"timezone", 1>>, <<"language", 1>>, <<"languages0", 1>> >>

\* the value of a table field in record r, undefined where it or its sub-record is missing
SpecFieldValue(r, f) ==
  LET sub(name) == IF HasProp(r, name) THEN Get(r, name) ELSE EmptyObj
      langs     == Get(sub("localeInfo"), "languages")
  IN CASE f \in {"audioHash", "drmHash", "canvasHash"} -> Get(r, f)
       [] f \in {"userAgent", "screenRes", "deviceMemory", "hardwareConcurrency"}
            -> Get(sub("deviceInfo"), f)
       [] f \in {"timezone", "language"} -> Get(sub("localeInfo"), f)
       [] f = "languages0"
            -> IF langs.t = "array" /\ Len(langs.e) > 0 THEN langs.e[1] ELSE Undef

RECURSIVE MatchedWeight(_, _, _)
MatchedWeight(a, b, i) ==
  IF i > Len(SpecTable) THEN 0
  ELSE (IF SpecFieldValue(a, SpecTable[i][1]) = SpecFieldValue(b, SpecTable[i][1])
        THEN SpecTable[i][2] ELSE 0) + MatchedWeight(a, b, i + 1)

\* the record a record input stands for
RecordOf(x) == IF x \in Fingerprints THEN Get(x, "components") ELSE x

RecordInputs == ComponentRecords \cup Fingerprints

\* C1: whenever a side normalises to the identifier-only shape, compare returns 1 if
\* both sides are identifier-only with the same identifier and 0 in every other case.
C1_IdOnlyScoresByEquality ==
  (Compared /\ (IsIdOnly(normA) \/ IsIdOnly(normB)))
    => IF IsIdOnly(normA) /\ IsIdOnly(normB)
          /\ Get(normA, "__idOnly") = Get(normB, "__idOnly")
       THEN ScoreIs(result, 1, 1)
       ELSE ScoreIs(result, 0, 1)

\* C2: for two component records, bare or inside a Fingerprint, compare returns the
\* summed table weight of the fields with equal values, over 13; records that differ
\* only in canvasHash score 12/13, and only in storageSalt, privateFlag or id score 1.
C2_WeightedScore ==
  (Compared /\ left \in RecordInputs /\ right \in RecordInputs)
    => /\ ScoreIs(result, MatchedWeight(RecordOf(left), RecordOf(right), 1), 13)
       /\ \A D \in DiffSets :
            (RecordOf(left) = RecordWith({}) /\ RecordOf(right) = RecordWith(D))
              => /\ D = {"canvasHash"} => ScoreIs(result, 12, 13)
                 /\ D \subseteq {"storageSalt", "privateFlag"} => ScoreIs(result, 1, 1)

C2_Witness ==
  /\ cpc = "done"
  /\ left = RecordWith({}) /\ right = MkFingerprint(RecordWith({"canvasHash"}))
  /\ ScoreIs(result, 12, 13)

\* C3: two bare identifier strings each normalise to the identifier-only shape
\* carrying that exact text, and compare returns 1 when they are equal, else 0.
C3_BareIdsCompareByEquality ==
  (Compared /\ left \in BareIdStrings /\ right \in BareIdStrings)
    => /\ normA = IdOnly(left) /\ normB = IdOnly(right)
       /\ IF left = right THEN ScoreIs(result, 1, 1) ELSE ScoreIs(result, 0, 1)

\* text that JSON.parse rejects
Unparseable(x) == x.t = "string" /\ ~JSONParse(x.s).ok

\* C4 as stated: text that fails to parse normalises to an empty record, and the
\* score is the weighted score against all-missing fields on that side.
C4_MalformedTextIsEmptyRecord ==
  (Compared /\ Unparseable(left))
    => /\ normA = EmptyObj
       /\ right \in RecordInputs
            => ScoreIs(result, MatchedWeight(EmptyObj, RecordOf(right), 1), 13)

\* C4 amended: text that fails to parse normalises to the identifier-only shape
\* carrying that text; when the text is not empty the score is 1 if the other side
\* is identifier-only with the same text and 0 otherwise.
C4_MalformedTextIsIdOnly ==
  /\ (Compared /\ Unparseable(left))
       => /\ normA = IdOnly(left)
          /\ left.s # <<>>
               => IF IsIdOnly(normB) /\ Get(normB, "__idOnly") = left
                  THEN ScoreIs(result, 1, 1) ELSE ScoreIs(result, 0, 1)
  /\ (Compared /\ Unparseable(right))
       => /\ normB = IdOnly(right)
          /\ right.s # <<>>
               => IF IsIdOnly(normA) /\ Get(normA, "__idOnly") = right
                  THEN ScoreIs(result, 1, 1) ELSE ScoreIs(result, 0, 1)

C4_Witness ==
  /\ cpc = "done"
  /\ left \in MalformedTexts /\ right = RecordWith({})
  /\ normA = IdOnly(left) /\ ScoreIs(result, 0, 1)

\* C8: compare returns, for inputs of every shape, a number in [0, 1] without
\* raising, and 0 whenever a normalised value is not an object.
C8_TotalAndBounded ==
  Compared
    => /\ result.kind = "return"
       /\ result.den > 0 /\ 0 <= result.num /\ result.num <= result.den
       /\ (TypeOf(normA) # "object" \/ TypeOf(normB) # "object") => result.num = 0

C8_Witness ==
  /\ cpc = "done"
  /\ TypeOf(normA) # "object" /\ right \in Fingerprints
  /\ result = Return(0, 1)

\* C9: normalising a component record again returns the record itself, and compare
\* gives the same score for the normalised records as for the inputs.
C9_NormaliseIdempotent ==
  cpc = "redone"
    => /\ normA \in ComponentRecords => renormA = normA
       /\ normB \in ComponentRecords => renormB = normB
       /\ (normA \in ComponentRecords /\ normB \in ComponentRecords)
            => reresult = result

C9_Witness ==
  /\ cpc = "redone"
  /\ left \in JsonTexts /\ right \in Fingerprints
  /\ normA \in ComponentRecords /\ normB \in ComponentRecords
  /\ renormA = normA /\ renormB = normB /\ normA # normB
  /\ reresult = result /\ ~ScoreIs(result, 0, 1)

\* fingerprints whose weighted fields are all present and no sentinel
FullFingerprints == {MkFingerprint(RecordWith(D)) : D \in DiffSets}

\* C10: compare(x, x) = 1 for a full Fingerprint x, handed in as an object or as its
\* JSON text on either side.
C10_Reflexive ==
  \A x \in FullFingerprints :
    (Compared /\ left \in {x, TextOf(x)} /\ right \in {x, TextOf(x)})
      => ScoreIs(result, 1, 1)

C10_Witness ==
  /\ cpc = "done"
  /\ left = MkFingerprint(RecordWith({"audioHash"}))
  /\ right = TextOf(left)
  /\ ScoreIs(result, 1, 1)

(***************************************************************************)
(* Properties of generate(), checked under Spec.                           *)
(***************************************************************************)
ComponentKeys ==
  << "audioHash", "drmHash", "canvasHash", "storageSalt", "privateFlag",
     "deviceInfo", "localeInfo" >>

\* a Fingerprint with all seven component keys and a hex identifier
CompleteFingerprint(fp) ==
  /\ fp.t = "object"
  /\ LET comp == Get(fp, "components") IN
     /\ comp.t = "object"
     /\ [i \in 1..Len(comp.f) |-> comp.f[i].k] = [i \in 1..Len(ComponentKeys) |-> Key(ComponentKeys[i])]
     /\ Get(fp, "id") = digest(JSONStringify(comp))

\* C5: generate() never fails: in every runtime it completes with a complete
\* Fingerprint; it never rejects and never stays pending on a failed probe.
C5_GenerateNeverFails ==
  \A c \in Calls :
    /\ calls[c].pc # "rejected"
    /\ calls[c].private.det # "hung"
    /\ calls[c].pc = "done"
         => /\ CompleteFingerprint(calls[c].out)
            /\ (~env.isBrowser \/ env.audio = "throws") => calls[c].audioHash = Unavailable
            /\ (~env.isBrowser \/ env.canvas = "throws") => calls[c].canvasHash = Unavailable
            /\ (~env.isBrowser \/ env.storage = "throws") => calls[c].storageSalt = Unavailable
            /\ (env.isBrowser /\ ~env.mediaKeys) => calls[c].drmHash = Unsupported

Collected(c) == calls[c].storageSalt # Unset

SpecPrivateFlag(e) ==
  CASE e.idb \in {"openError", "openThrows"} -> {Bool(TRUE)}
    [] e.idb = "openOk" /\ e.estimate = "absent" -> {Bool(FALSE)}
    [] e.idb = "openOk" /\ e.estimate = "resolves" /\ e.quota.t = "number"
         -> {Bool(e.quota.n < QuotaThreshold)}
    [] OTHER -> {Bool(TRUE), Bool(FALSE)}

\* C7: private-mode detection always yields a boolean: true when opening the test
\* database fails or throws, true when the quota is below 150,000,000 (0 included),
\* false at or above it, false when the estimation API is unavailable.
C7_PrivateFlagTable ==
  \A c \in Calls :
    env.isBrowser
      => /\ calls[c].private.det # "hung"
         /\ calls[c].private.det = "resolved"
              => calls[c].private.v \in SpecPrivateFlag(env)

====
